---- MODULE Spec2Model ----
(***************************************************************************)
(* A model of src/cli.py: the terminal (_GetchUnix), the escape decoder    *)
(* (_Getch), the line editor (CLI.input), the command registry             *)
(* (register_command, unregister_command, _generate_command_maps), the     *)
(* shell loop (CLI.run) and the built-in commands; and of the handler inc  *)
(* of src/test_cli.py.                                                     *)
(*                                                                         *)
(* A Python string is a sequence of one-character strings.  The control    *)
(* bytes are named: "ESC" is 0x1b, "ETX" is 0x03, "EOT" is 0x04, "LF" and  *)
(* "CR" are the line ends, "DEL" is 0x7f and "BS" is 0x08.                 *)
(***************************************************************************)
EXTENDS Integers, Sequences, FiniteSets, TLC

VARIABLES
  \* _Getch.__call__
  dpc, ch, escape, ret, readLog, emitted,
  \* CLI.input
  epc, out, index, in_ch, stop_chars, seed, events,
  \* CLI (registry)
  commands, command_maps, result,
  \* CLI.run
  pc, history, history_limit, i, last, current_cmd, force_quit, stop, cmd,
  response, raised,
  \* a record of the run so far: how the last cycle ended and the arrow keys
  \* pressed and, when keep_log is set, the history when the prompt cycle began,
  \* and the lines with a word in them given to RunLine
  keep_log, h0, lastEnd, submitted, navPhase, navDraft, navUps, navDowns,
  \* the terminal: its mode, how often it was put in raw mode, what the last
  \* redraw of input() wrote, and the number of bytes read since
  tty, raw_entries, screen, read_gap,
  \* self.state["number"], what the last handler printed, and a record of the
  \* commands as they were registered, kept when keep_log is set
  state_number, printed, registered

decVars == <<dpc, ch, escape, ret, readLog, emitted>>
edVars == <<epc, out, index, in_ch, stop_chars, seed, events>>
regVars == <<commands, command_maps, result>>
runVars == <<pc, history, history_limit, i, last, current_cmd, force_quit, stop,
             cmd, response, raised>>
logVars == <<keep_log, h0, lastEnd, submitted, navPhase, navDraft, navUps, navDowns>>
ttyVars == <<tty, raw_entries, screen, read_gap>>
callVars == <<state_number, printed, registered>>
vars == <<decVars, edVars, regVars, runVars, logVars, ttyVars, callVars>>

(***************************************************************************)
(* Bounds of the model.                                                    *)
(***************************************************************************)
\* bytes read from the terminal in the decoder's specification
MaxReads == 4
\* length of the text input() is seeded with, and events applied to it
MaxSeed == 1
MaxEvents == 3
\* entries of self.commands
MaxCommands == 5
\* the history_limit a CLI is constructed with
MaxHistoryLimit == 2
\* characters of a line typed at the prompt
MaxLine == 1
\* ArrowUp keys pressed in a row
MaxNav == 2
\* self.state["number"]
MaxNumber == 3

Last(s) == s[Len(s)]

(***************************************************************************)
(* _GetchUnix: the terminal.  Each call reads the terminal's settings, puts *)
(* it in raw mode, reads one byte and puts the settings back.  tty is "raw" *)
(* while the program waits in sys.stdin.read(1), and "cooked", the mode the *)
(* terminal had, otherwise.  raw_entries records how often tty.setraw was   *)
(* called in this run: "never", "once", or "again" for more than once.      *)
(***************************************************************************)
\* the record after n more calls of tty.setraw
RawEntries(r, n) ==
  IF n = 0 THEN r
  ELSE IF n = 1 /\ r = "never" THEN "once"
  ELSE "again"

\* Lines 258-260 of input(): the row is cleared and prompt + out is written,
\* and the cursor is moved len(out) - index columns to the left.  The prompt
\* is one item of the row here.
NoScreen == [row |-> <<>>, back |-> 0]

\* Redraw without the move of the cursor
RedrawCursorAtEnd(o, idx) == [row |-> <<"prompt">> \o o, back |-> 0]

Redraw(o, idx) == [row |-> <<"prompt">> \o o, back |-> Len(o) - idx]

\* input() redraws (o, idx) before it calls self.getch(): no byte was read
\* since
Draw(o, idx) ==
  /\ screen' = Redraw(o, idx)
  /\ read_gap' = 0

\* run() has left input(): print() ends the row
EndRow ==
  /\ screen' = NoScreen
  /\ read_gap' = 0

\* n calls of _GetchUnix.__call__ that have returned, and one more that waits
\* for its byte when waiting is set
GetchUnix(n, waiting) ==
  /\ raw_entries' = RawEntries(raw_entries, IF waiting THEN n + 1 ELSE n)
  /\ tty' = IF waiting THEN "raw" ELSE "cooked"

(***************************************************************************)
(* _Getch: the escape decoder.                                             *)
(***************************************************************************)
None == [kind |-> "None"]
Str(s) == [kind |-> "str", val |-> s]
Dict(kids) == [kind |-> "dict", kids |-> kids]

\* self.escape: the tree of escape sequences
escape_tree ==
  Dict("ESC" :> Dict(("[" :> Dict(("A" :> None) @@ ("B" :> None) @@ ("C" :> None)
                                   @@ ("D" :> None) @@ ("P" :> None)))
                     @@ ("ESC" :> Str(<<"ESC">>))))

\* the bytes the terminal sends in the decoder's specification
Bytes == {"ESC", "[", "A", "B", "P", "Z", "q"}

\* GetchLoop with the whole of ch returned on a failed escape sequence
GetchLoopBadFallback(c, e) ==
  IF Last(c) \in DOMAIN e.kids
    THEN LET e2 == e.kids[Last(c)] IN
         IF e2.kind # "dict"
           THEN [dpc |-> "returned", escape |-> e2,
                 ret |-> IF e2.kind = "None" THEN c ELSE e2.val]
           ELSE [dpc |-> "reading", escape |-> e2, ret |-> <<>>]
    ELSE [dpc |-> "returned", escape |-> e, ret |-> c]

\* GetchLoop with a leaf that is a string returned like a leaf that is None
GetchLoopLeafAsSequence(c, e) ==
  IF Last(c) \in DOMAIN e.kids
    THEN LET e2 == e.kids[Last(c)] IN
         IF e2.kind # "dict"
           THEN [dpc |-> "returned", escape |-> e2, ret |-> c]
           ELSE [dpc |-> "reading", escape |-> e2, ret |-> <<>>]
    ELSE [dpc |-> "returned", escape |-> e,
          ret |-> IF Len(c) > 1 THEN <<Last(c)>> ELSE c]

\* The while loop of __call__ from its test to the next self.impl() or to a
\* return, with c the bytes read so far in this call and e the current node.
GetchLoop(c, e) ==
  IF Last(c) \in DOMAIN e.kids
    THEN LET e2 == e.kids[Last(c)] IN
         IF e2.kind # "dict"
           THEN [dpc |-> "returned", escape |-> e2,
                 ret |-> IF e2.kind = "None" THEN c ELSE e2.val]
           ELSE [dpc |-> "reading", escape |-> e2, ret |-> <<>>]
    ELSE [dpc |-> "returned", escape |-> e,
          ret |-> IF Len(c) > 1 THEN <<Last(c)>> ELSE c]

GetchSet(c, r, b) ==
  /\ GetchUnix(IF dpc = "reading" THEN 0 ELSE 1, r.dpc = "reading")
  /\ screen' = screen
  /\ read_gap' = read_gap + 1
  /\ ch' = c
  /\ dpc' = r.dpc
  /\ escape' = r.escape
  /\ ret' = r.ret
  /\ readLog' = Append(readLog, b)
  /\ emitted' = IF r.dpc = "returned" THEN Append(emitted, r.ret) ELSE emitted

\* ch = self.impl(); escape = self.escape; the loop up to its next read
GetchCall(b) ==
  /\ dpc # "reading"
  /\ Len(readLog) < MaxReads
  /\ GetchSet(<<b>>, GetchLoop(<<b>>, escape_tree), b)
  /\ UNCHANGED <<edVars, regVars, runVars, logVars, callVars>>

\* ch += self.impl(); the loop up to its next read
GetchRead(b) ==
  /\ dpc = "reading"
  /\ Len(readLog) < MaxReads
  /\ GetchSet(ch \o <<b>>, GetchLoop(ch \o <<b>>, escape), b)
  /\ UNCHANGED <<edVars, regVars, runVars, logVars, callVars>>

(***************************************************************************)
(* CLI.input: the line editor.  A key event is what self.getch() returns.  *)
(***************************************************************************)
ArrowUp == <<"ESC", "[", "A">>
ArrowDown == <<"ESC", "[", "B">>
ArrowRight == <<"ESC", "[", "C">>
ArrowLeft == <<"ESC", "[", "D">>
Delete == <<"ESC", "[", "P">>
Interrupt == <<"ETX">>
EndOfInput == <<"EOT">>

default_stop_chars == {Interrupt, EndOfInput, <<"LF">>, <<"CR">>}
default_invisible_chars == {ArrowUp, ArrowDown}
\* the stop_chars run() passes to input()
run_stop_chars == default_stop_chars \cup {ArrowUp, ArrowDown}

\* the characters typed in the editor's specification
EdChars == {"a", "b"}
EditKeys == {ArrowRight, ArrowLeft, Delete, <<"DEL">>, <<"BS">>}
EdKeys == {<<c>> : c \in EdChars} \cup EditKeys \cup default_invisible_chars
            \cup default_stop_chars
Texts(S, n) == UNION {[1..k -> S] : k \in 0..n}

\* InputStep with ArrowRight not stopped at the end of the text
InputStepNoClamp(o, idx, k) ==
  IF k = ArrowRight
    THEN [out |-> o, index |-> idx + 1]
  ELSE IF k = ArrowLeft
    THEN [out |-> o, index |-> IF idx > 0 THEN idx - 1 ELSE idx]
  ELSE IF k = <<"DEL">> \/ k = <<"BS">>
    THEN IF idx > 0
           THEN [out |-> SubSeq(o, 1, idx - 1) \o SubSeq(o, idx + 1, Len(o)),
                 index |-> idx - 1]
           ELSE [out |-> o, index |-> idx]
  ELSE IF k = Delete
    THEN IF idx < Len(o)
           THEN [out |-> SubSeq(o, 1, idx) \o SubSeq(o, idx + 2, Len(o)),
                 index |-> idx]
           ELSE [out |-> o, index |-> idx]
  ELSE [out |-> SubSeq(o, 1, idx) \o k \o SubSeq(o, idx + 1, Len(o)),
        index |-> idx + 1]

\* InputStep with Backspace deleting the character at the cursor
InputStepBackspaceAtCursor(o, idx, k) ==
  IF k = ArrowRight
    THEN [out |-> o, index |-> IF idx < Len(o) THEN idx + 1 ELSE idx]
  ELSE IF k = ArrowLeft
    THEN [out |-> o, index |-> IF idx > 0 THEN idx - 1 ELSE idx]
  ELSE IF k = <<"DEL">> \/ k = <<"BS">>
    THEN IF idx > 0
           THEN [out |-> SubSeq(o, 1, idx) \o SubSeq(o, idx + 2, Len(o)),
                 index |-> idx - 1]
           ELSE [out |-> o, index |-> idx]
  ELSE IF k = Delete
    THEN IF idx < Len(o)
           THEN [out |-> SubSeq(o, 1, idx) \o SubSeq(o, idx + 2, Len(o)),
                 index |-> idx]
           ELSE [out |-> o, index |-> idx]
  ELSE [out |-> SubSeq(o, 1, idx) \o k \o SubSeq(o, idx + 1, Len(o)),
        index |-> idx + 1]

\* the "handle special characters" branch of input(): o, idx are out, index
InputStep(o, idx, k) ==
  IF k = ArrowRight
    THEN [out |-> o, index |-> IF idx < Len(o) THEN idx + 1 ELSE idx]
  ELSE IF k = ArrowLeft
    THEN [out |-> o, index |-> IF idx > 0 THEN idx - 1 ELSE idx]
  ELSE IF k = <<"DEL">> \/ k = <<"BS">>
    THEN IF idx > 0
           THEN [out |-> SubSeq(o, 1, idx - 1) \o SubSeq(o, idx + 1, Len(o)),
                 index |-> idx - 1]
           ELSE [out |-> o, index |-> idx]
  ELSE IF k = Delete
    THEN IF idx < Len(o)
           THEN [out |-> SubSeq(o, 1, idx) \o SubSeq(o, idx + 2, Len(o)),
                 index |-> idx]
           ELSE [out |-> o, index |-> idx]
  ELSE [out |-> SubSeq(o, 1, idx) \o k \o SubSeq(o, idx + 1, Len(o)),
        index |-> idx + 1]

\* out = base_input; index = len(out): a call of input() up to its first getch
InputCall(base_input, stops) ==
  /\ epc # "reading"
  /\ out' = base_input
  /\ index' = Len(base_input)
  /\ in_ch' = <<>>
  /\ stop_chars' = stops
  /\ seed' = base_input
  /\ events' = <<>>
  /\ epc' = "reading"
  /\ GetchUnix(0, TRUE)
  /\ Draw(base_input, Len(base_input))
  /\ UNCHANGED <<decVars, regVars, runVars, logVars, callVars>>

\* ch = self.getch() and the rest of the loop body, up to the next getch; in_ch
\* is the ch that input() returns
InputKey(k) ==
  /\ epc = "reading"
  /\ IF k \in stop_chars
       THEN /\ epc' = "returned"
            /\ in_ch' = k
            /\ UNCHANGED <<out, index, events>>
       ELSE /\ Len(events) < MaxEvents
            /\ in_ch' = <<>>
            /\ epc' = "reading"
            /\ events' = Append(events, k)
            /\ IF k \in default_invisible_chars
                 THEN UNCHANGED <<out, index>>
                 ELSE /\ out' = InputStep(out, index, k).out
                      /\ index' = InputStep(out, index, k).index
  /\ GetchUnix(Len(k) - 1, k \notin stop_chars)
  /\ IF k \in stop_chars
       THEN screen' = screen /\ read_gap' = Len(k)
       ELSE Draw(out', index')
  /\ UNCHANGED <<stop_chars, seed>>
  /\ UNCHANGED <<decVars, regVars, runVars, logVars, callVars>>

(***************************************************************************)
(* CLI: the command registry.  A Command has no __eq__, so two commands    *)
(* are equal when they are the same object: obj is the object's identity.  *)
(* An identifier is an index of self.commands, counted from 0.             *)
(***************************************************************************)
Command(obj, aliases) == [obj |-> obj, aliases |-> aliases]
Tombstone == Command("None", <<>>)

cmd_help == Command("default_cmd_help", << <<"h">>, <<"h", "e", "l", "p">> >>)
cmd_quit == Command("default_cmd_quit", << <<"q">>, <<"q", "u", "i", "t">> >>)
cmd_history == Command("default_cmd_history",
                       << <<"h", "i", "s", "t", "o", "r", "y">> >>)

\* the command of test_cli.py with the handler inc(state, args), and one with
\* a handler of the same body that takes (inter, state, args)
inc_aliases == << <<"i", "n", "c">>, <<"a", "d", "d">>, <<"n", "u", "m">> >>
cmd_inc == Command("inc", inc_aliases)
cmd_inc3 == Command("inc3", inc_aliases)

\* the commands a host registers
cmd_x == Command("x", << <<"x">> >>)
cmd_yx == Command("yx", << <<"y">>, <<"x">> >>)
cmd_q == Command("q", << <<"q">> >>)
Candidates == {cmd_x, cmd_yx, cmd_q}

Range(s) == {s[k] : k \in DOMAIN s}
Live(cmds) == {k \in DOMAIN cmds : cmds[k] # Tombstone}
\* the identifiers of the commands of cmds that are not None and hold alias a
Holders(cmds, a) == {k - 1 : k \in {j \in Live(cmds) : a \in Range(cmds[j].aliases)}}
Max(S) == CHOOSE m \in S : \A n \in S : n <= m

\* _generate_command_maps: a later command's alias replaces an earlier one's
GenerateCommandMaps(cmds) ==
  [a \in UNION {Range(cmds[k].aliases) : k \in Live(cmds)} |-> Max(Holders(cmds, a))]

\* RegisterCheck with the aliases looked up before the command
RegisterCheckAliasFirst(command, cmds, maps) ==
  IF \E k \in DOMAIN command.aliases : command.aliases[k] \in DOMAIN maps
    THEN "command_overlapping_alias"
  ELSE IF command \in Range(cmds)
    THEN "command_already_registered"
  ELSE "ok"

\* the checks of register_command: what it raises, or "ok"
RegisterCheck(command, cmds, maps) ==
  IF command \in Range(cmds)
    THEN "command_already_registered"
  ELSE IF \E k \in DOMAIN command.aliases : command.aliases[k] \in DOMAIN maps
    THEN "command_overlapping_alias"
  ELSE "ok"

\* the local cmd of run() before its first assignment in a prompt cycle
Unbound == Command("unbound", <<>>)
Builtins == {cmd_help, cmd_quit, cmd_history}

\* the places register_command and unregister_command can be called from: the
\* host before and after run(), and a handler of the host while it runs
CanCall ==
  \/ pc \in {"init", "DONE", "RAISED"}
  \/ pc = "HANDLER" /\ cmd \notin Builtins \cup {Tombstone}

register_command(command) ==
  /\ CanCall
  /\ Len(commands) < MaxCommands
  /\ LET chk == RegisterCheck(command, commands, command_maps) IN
       IF chk = "ok"
         THEN /\ commands' = Append(commands, command)
              /\ result' = [op |-> "register", raised |-> "", id |-> Len(commands)]
              /\ registered' = IF keep_log THEN Append(registered, command)
                                ELSE registered
         ELSE /\ commands' = commands
              /\ result' = [op |-> "register", raised |-> chk, id |-> -1]
              /\ registered' = registered
  /\ UNCHANGED <<command_maps, decVars, edVars, runVars, logVars, ttyVars>>
  /\ UNCHANGED <<state_number, printed>>

unregister_command(id) ==
  /\ CanCall
  /\ IF id < Len(commands)
       THEN /\ commands' = [commands EXCEPT ![id + 1] = Tombstone]
            /\ result' = [op |-> "unregister", raised |-> "", id |-> id]
       ELSE /\ commands' = commands
            /\ result' = [op |-> "unregister", raised |-> "id_out_of_range", id |-> id]
  /\ UNCHANGED <<command_maps, decVars, edVars, runVars, logVars, ttyVars, callVars>>

(***************************************************************************)
(* CLI.run: the shell loop.  pc is "init" before run() is called, "PROMPT" *)
(* at the top of the outer loop, "COLLECT" while input() waits for a key,  *)
(* "HANDLER" while cmd.function runs, "DONE" when run() has returned and   *)
(* "RAISED" when it has raised.                                            *)
(***************************************************************************)
\* What a handler does is a record: it raises exc, or it returns val, an int
\* (isint) or a value of another type that may compare equal to it (the float
\* -1024.0).
Raise(exc) == [kind |-> "raise", exc |-> exc, isint |-> FALSE, val |-> 0]
Return(val) == [kind |-> "return", exc |-> "", isint |-> TRUE, val |-> val]
ReturnOther(val) == [kind |-> "return", exc |-> "", isint |-> FALSE, val |-> val]

\* the characters typed at the prompt
ShellChars == {"q", "x", " "}
case_insensitive == TRUE

\* str.lower() of one character
LowerChar(c) ==
  CASE c = "Q" -> "q"
    [] c = "X" -> "x"
    [] c = "Y" -> "y"
    [] OTHER -> c
Lower(s) == [k \in DOMAIN s |-> LowerChar(s[k])]

\* str.split(): the maximal runs of characters that are not whitespace
RECURSIVE SplitFrom(_, _, _)
SplitFrom(s, k, word) ==
  IF k > Len(s)
    THEN IF word = <<>> THEN <<>> ELSE <<word>>
  ELSE IF s[k] = " "
    THEN (IF word = <<>> THEN <<>> ELSE <<word>>) \o SplitFrom(s, k + 1, <<>>)
  ELSE SplitFrom(s, k + 1, Append(word, s[k]))
Split(s) == SplitFrom(s, 1, <<>>)

\* BeginLine with the newest entry popped
BeginLineKeepOldest(h) ==
  LET h1 == IF Len(h) >= history_limit THEN SubSeq(h, 1, Len(h) - 1) ELSE h IN
  [history |-> Append(h1, <<>>), i |-> Len(h1), last |-> Len(h1)]

\* BeginLine with no entry popped
BeginLineNoEviction(h) ==
  [history |-> Append(h, <<>>), i |-> Len(h), last |-> Len(h)]

\* lines 305-309: room for the draft slot, then the draft slot
BeginLine(h) ==
  LET h1 == IF Len(h) >= history_limit THEN Tail(h) ELSE h IN
  [history |-> Append(h1, <<>>), i |-> Len(h1), last |-> Len(h1)]

\* AfterCollect with the line written to the entry at the navigation index
AfterCollectAtIndex(h, c) ==
  LET h1 == [h EXCEPT ![i + 1] = c]
      args == Split(c)
      cmd_name == IF case_insensitive THEN Lower(args[1]) ELSE args[1]
  IN IF Len(args) = 0
       THEN [history |-> SubSeq(h1, 1, Len(h1) - 1), pc |-> "PROMPT", cmd |-> Unbound,
             lastEnd |-> "empty"]
     ELSE IF cmd_name \in DOMAIN command_maps
       THEN [history |-> h1, pc |-> "HANDLER", cmd |-> commands[command_maps[cmd_name] + 1],
             lastEnd |-> "handler"]
     ELSE [history |-> h1, pc |-> "PROMPT", cmd |-> Unbound, lastEnd |-> "command_not_found"]

\* lines 357-366 and 386-387: the commit of the line and the look-up of its
\* first word; h is self.history and c is current_cmd
AfterCollect(h, c) ==
  LET h1 == [h EXCEPT ![Len(h)] = c]
      args == Split(c)
      cmd_name == IF case_insensitive THEN Lower(args[1]) ELSE args[1]
  IN IF Len(args) = 0
       THEN [history |-> SubSeq(h1, 1, Len(h1) - 1), pc |-> "PROMPT", cmd |-> Unbound,
             lastEnd |-> "empty"]
     ELSE IF cmd_name \in DOMAIN command_maps
       THEN [history |-> h1, pc |-> "HANDLER", cmd |-> commands[command_maps[cmd_name] + 1],
             lastEnd |-> "handler"]
     ELSE [history |-> h1, pc |-> "PROMPT", cmd |-> Unbound, lastEnd |-> "command_not_found"]

\* what a handler printed: the commands help listed, and the numbered entries
\* history listed
NoPrint == [help |-> <<>>, history |-> <<>>]

\* The locals i, last, stop, cmd and response of run() do not exist before their
\* first assignment in a call, and current_cmd, stop, cmd and response are
\* assigned in every prompt cycle before they are read: a new call and a new
\* cycle start without them.  Inside the inner loop current_cmd and stop are
\* what input() has just returned, out and the key: the model reads them
\* there, and keeps in current_cmd and stop only what the loop was left with.
NoLocals ==
  /\ i' = 0
  /\ last' = 0
  /\ stop' = <<>>
  /\ cmd' = Unbound
  /\ response' = Return(0)

\* run() up to its outer loop
RunStart ==
  /\ pc \in {"init", "DONE", "RAISED"}
  /\ epc # "reading"
  /\ command_maps' = GenerateCommandMaps(commands)
  /\ history' = <<>>
  /\ current_cmd' = <<>>
  /\ force_quit' = FALSE
  /\ pc' = "PROMPT"
  /\ raised' = ""
  /\ h0' = <<>>
  /\ lastEnd' = "none"
  /\ submitted' = <<>>
  /\ navPhase' = "none"
  /\ navDraft' = <<>>
  /\ navUps' = 0
  /\ navDowns' = 0
  /\ NoLocals
  /\ raw_entries' = "never"
  /\ EndRow
  /\ printed' = NoPrint
  /\ UNCHANGED <<commands, result, history_limit, keep_log>>
  /\ UNCHANGED <<decVars, edVars, tty, state_number, registered>>

\* what get_prompt() gives: a string, something else (None when a TypeError was
\* suppressed or self.prompt is neither callable nor a string), or an exception
\* of self.prompt other than TypeError
PromptResults == {"str", "None", "raise"}

\* lines 301-317: the prompt, the draft slot and the first call of input()
Prompt(p) ==
  /\ pc = "PROMPT"
  /\ h0' = IF keep_log THEN history ELSE <<>>
  /\ navPhase' = "none"
  /\ navDraft' = <<>>
  /\ navUps' = 0
  /\ navDowns' = 0
  /\ IF p = "str"
       THEN LET b == BeginLine(history) IN
            /\ history' = b.history
            /\ i' = b.i
            /\ last' = b.last
            /\ out' = b.history[b.i + 1]
            /\ index' = Len(b.history[b.i + 1])
            /\ pc' = "COLLECT"
            /\ raised' = raised
            /\ GetchUnix(0, TRUE)
            /\ Draw(b.history[b.i + 1], Len(b.history[b.i + 1]))
       ELSE /\ pc' = "RAISED"
            /\ raised' = IF p = "None" THEN "prompt_invalid" ELSE "prompt"
            /\ i' = 0
            /\ last' = 0
            /\ UNCHANGED <<history, out, index, ttyVars>>
  /\ current_cmd' = <<>>
  /\ stop' = <<>>
  /\ cmd' = Unbound
  /\ response' = Return(0)
  /\ lastEnd' = "none"
  /\ UNCHANGED <<force_quit, history_limit>>
  /\ printed' = NoPrint
  /\ UNCHANGED <<submitted, keep_log, state_number, registered>>
  /\ UNCHANGED <<decVars, regVars, epc, in_ch, stop_chars, seed, events>>

\* the arrow keys pressed since the live draft, with nothing else in between:
\* "up" after ArrowUp keys only, "down" once an ArrowDown has followed them
NavReset ==
  /\ navPhase' = "none"
  /\ navDraft' = <<>>
  /\ navUps' = 0
  /\ navDowns' = 0

\* lines 311-317: the inner loop calls input() again, seeded with history[i]
Reseed(h, k) ==
  /\ out' = h[k + 1]
  /\ index' = Len(h[k + 1])

\* input() has returned: its locals are gone
InputGone ==
  /\ out' = <<>>
  /\ index' = 0

ShellEditKeys == {<<c>> : c \in ShellChars} \cup EditKeys

\* a key that is no stop character: lines 267-287 of input()
KeyEdit(k) ==
  /\ pc = "COLLECT"
  /\ k \notin run_stop_chars
  /\ k \in EditKeys \/ Len(out) < MaxLine
  /\ out' = InputStep(out, index, k).out
  /\ index' = InputStep(out, index, k).index
  /\ NavReset
  /\ GetchUnix(Len(k) - 1, TRUE)
  /\ Draw(out', index')
  /\ UNCHANGED <<keep_log, h0, lastEnd, submitted, callVars>>
  /\ UNCHANGED <<decVars, regVars, runVars, epc, in_ch, stop_chars, seed, events>>

\* DiscardLine without the assignment
DiscardLineKept(c) == c

\* line 323: current_cmd = ""
DiscardLine(c) == <<>>

\* lines 321-324, then 357-361
KeyInterrupt ==
  /\ pc = "COLLECT"
  /\ stop' = Interrupt
  /\ current_cmd' = DiscardLine(out)
  /\ LET r == AfterCollect(history, DiscardLine(out)) IN
       /\ history' = r.history
       /\ pc' = r.pc
       /\ cmd' = r.cmd
  /\ InputGone
  /\ lastEnd' = "interrupt"
  /\ NavReset
  /\ GetchUnix(0, FALSE)
  /\ EndRow
  /\ UNCHANGED <<keep_log, h0, submitted, callVars>>
  /\ UNCHANGED <<history_limit, i, last, force_quit, response, raised>>
  /\ UNCHANGED <<decVars, regVars, epc, in_ch, stop_chars, seed, events>>

\* ForceQuit with the test on current_cmd left out
ForceQuitNever(c) == FALSE

\* line 326: the test of the EndOfInput branch on current_cmd
ForceQuit(c) == c = <<>>

\* lines 325-331, then 353-355 or the next call of input()
KeyEndOfInput ==
  /\ pc = "COLLECT"
  /\ IF ForceQuit(out)
       THEN /\ stop' = EndOfInput
            /\ current_cmd' = out
            /\ force_quit' = TRUE
            /\ pc' = "DONE"
            /\ lastEnd' = "force_quit"
            /\ InputGone
            /\ GetchUnix(0, FALSE)
            /\ EndRow
       ELSE /\ Reseed(history, i)
            /\ GetchUnix(0, TRUE)
            /\ Draw(out', index')
            /\ UNCHANGED <<stop, current_cmd, force_quit, pc, lastEnd>>
  /\ NavReset
  /\ UNCHANGED <<keep_log, h0, submitted, callVars>>
  /\ UNCHANGED <<history, history_limit, i, last, cmd, response, raised>>
  /\ UNCHANGED <<decVars, regVars, epc, in_ch, stop_chars, seed, events>>

\* lines 332-341, then the next call of input()
KeyUp ==
  /\ pc = "COLLECT"
  /\ navUps < MaxNav
  /\ IF i > 0
       THEN /\ history' = IF i = last THEN [history EXCEPT ![last + 1] = out]
                                     ELSE history
            /\ i' = i - 1
       ELSE UNCHANGED <<history, i>>
  /\ Reseed(history', i')
  /\ IF navPhase = "none" /\ i = last
       THEN /\ navPhase' = "up"
            /\ navDraft' = out
            /\ navUps' = 1
            /\ navDowns' = 0
     ELSE IF navPhase = "up"
       THEN /\ navUps' = navUps + 1
            /\ UNCHANGED <<navPhase, navDraft, navDowns>>
     ELSE NavReset
  /\ GetchUnix(Len(ArrowUp) - 1, TRUE)
  /\ Draw(out', index')
  /\ UNCHANGED <<keep_log, h0, lastEnd, submitted, callVars>>
  /\ UNCHANGED <<pc, history_limit, last, current_cmd, force_quit, stop, cmd, response,
                 raised>>
  /\ UNCHANGED <<decVars, regVars, epc, in_ch, stop_chars, seed, events>>

\* lines 342-348, then the next call of input()
KeyDown ==
  /\ pc = "COLLECT"
  /\ i' = IF i < last THEN i + 1 ELSE i
  /\ Reseed(history, i')
  /\ IF navPhase \in {"up", "down"} /\ navDowns < navUps
       THEN /\ navPhase' = "down"
            /\ navDowns' = navDowns + 1
            /\ UNCHANGED <<navDraft, navUps>>
       ELSE NavReset
  /\ GetchUnix(Len(ArrowDown) - 1, TRUE)
  /\ Draw(out', index')
  /\ UNCHANGED <<keep_log, h0, lastEnd, submitted, callVars>>
  /\ UNCHANGED <<pc, history, history_limit, last, current_cmd, force_quit, stop, cmd,
                 response, raised>>
  /\ UNCHANGED <<decVars, regVars, epc, in_ch, stop_chars, seed, events>>

\* lines 349-351, then 357-366 and 386-387: k is "\n" or "\r"
KeySubmit(k) ==
  /\ pc = "COLLECT"
  /\ k \in {<<"LF">>, <<"CR">>}
  /\ stop' = k
  /\ current_cmd' = out
  /\ LET r == AfterCollect(history, out) IN
       /\ history' = r.history
       /\ pc' = r.pc
       /\ cmd' = r.cmd
       /\ lastEnd' = r.lastEnd
  /\ InputGone
  /\ NavReset
  /\ GetchUnix(0, FALSE)
  /\ EndRow
  /\ UNCHANGED <<keep_log, h0, submitted, callVars>>
  /\ UNCHANGED <<history_limit, i, last, force_quit, response, raised>>
  /\ UNCHANGED <<decVars, regVars, epc, in_ch, stop_chars, seed, events>>

(***************************************************************************)
(* The handlers.                                                           *)
(***************************************************************************)

Digits == <<"0", "1", "2", "3", "4", "5", "6", "7", "8", "9">>
DigitValue(c) == (CHOOSE k \in DOMAIN Digits : Digits[k] = c) - 1
RECURSIVE NatValue(_)
NatValue(s) == IF s = <<>> THEN 0
               ELSE 10 * NatValue(SubSeq(s, 1, Len(s) - 1)) + DigitValue(Last(s))
IsNat(s) == s # <<>> /\ \A k \in DOMAIN s : s[k] \in Range(Digits)
\* int(s): whether it raises ValueError, and its value
IsInt(s) == IsNat(s) \/ (s # <<>> /\ s[1] \in {"-", "+"} /\ IsNat(Tail(s)))
IntValue(s) == IF s[1] = "-" THEN 0 - NatValue(Tail(s))
               ELSE IF s[1] = "+" THEN NatValue(Tail(s))
               ELSE NatValue(s)

\* default_cmd_help: print_fmt(None) raises AttributeError
default_cmd_help(argv) ==
  IF Len(argv) < 2
    THEN IF Tombstone \in Range(commands) THEN Raise("Exception") ELSE Return(0)
  ELSE IF argv[2] \in DOMAIN command_maps
    THEN IF commands[command_maps[argv[2]] + 1] = Tombstone
           THEN Raise("Exception") ELSE Return(0)
  ELSE Return(1)

\* default_cmd_quit
QuitStatus == -1024
default_cmd_quit(argv) == Return(QuitStatus)

\* default_cmd_history
default_cmd_history(argv) ==
  IF Len(argv) > 1
    THEN IF ~IsInt(argv[2]) THEN Return(1)
         ELSE IF IntValue(argv[2]) < 1 THEN Return(1)
         ELSE Return(0)
    ELSE Return(0)

\* list[start:stop] of Python, for start and stop below 0 as well
PySlice(list, start, end) ==
  LET n == Len(list)
      norm(x) == IF x < 0 THEN (IF n + x < 0 THEN 0 ELSE n + x)
                 ELSE IF x > n THEN n ELSE x
  IN SubSeq(list, norm(start) + 1, norm(end))

\* what default_cmd_history prints: [f"{k+1:3d}  {v}" ...][-count-1:-1]
HistoryPrinted(h, argv) ==
  LET numbered == [k \in DOMAIN h |-> <<k, h[k]>>]
      count == IF Len(argv) > 1 THEN IntValue(argv[2]) ELSE 15
  IN IF Len(argv) > 1 /\ ~IsInt(argv[2]) THEN <<>>
     ELSE IF count < 1 THEN <<>>
     ELSE PySlice(numbered, 0 - count - 1, -1)

\* what default_cmd_help prints: the commands print_fmt was called with before
\* it was called with None
HelpPrinted(argv) ==
  IF Len(argv) < 2
    THEN LET nones == {k \in DOMAIN commands : commands[k] = Tombstone}
             upto == IF nones = {} THEN Len(commands)
                     ELSE (CHOOSE k \in nones : \A n \in nones : k <= n) - 1
         IN SubSeq(commands, 1, upto)
  ELSE IF argv[2] \in DOMAIN command_maps
    THEN IF commands[command_maps[argv[2]] + 1] = Tombstone THEN <<>>
         ELSE <<commands[command_maps[argv[2]] + 1]>>
  ELSE <<>>

\* the positional parameters of a handler: inc(state, args) of test_cli.py has
\* two, the built-ins and the other handlers take (inter, state, argv)
Params(obj) == IF obj = "inc" THEN 2 ELSE 3

\* inc and inc3: state["number"] += 1; return 0
inc(n) == n + 1

\* what a handler of the host may do
UserOutcomes ==
  {Raise("KeyboardInterrupt"), Raise("EOFError"), Raise("Exception"),
   ReturnOther(0), ReturnOther(QuitStatus), Return(QuitStatus), Return(1), Return(0)}

\* cmd.function(self, self.state, args): None has no attribute function
HandlerOutcomes(c, argv) ==
  IF c = Tombstone THEN {Raise("Exception")}
  ELSE IF Params(c.obj) # 3 THEN {Raise("Exception")}
  ELSE IF c.obj = "inc3" THEN {Return(0)}
  ELSE IF c.obj = "default_cmd_help" THEN {default_cmd_help(argv)}
  ELSE IF c.obj = "default_cmd_quit" THEN {default_cmd_quit(argv)}
  ELSE IF c.obj = "default_cmd_history" THEN {default_cmd_history(argv)}
  ELSE UserOutcomes

\* what the call printed, and self.state["number"] after it: a call with three
\* arguments of a function of two parameters raises TypeError before its body
HandlerPrinted(c, argv) ==
  IF c = Tombstone \/ Params(c.obj) # 3 THEN NoPrint
  ELSE IF c.obj = "default_cmd_help" THEN [NoPrint EXCEPT !.help = HelpPrinted(argv)]
  ELSE IF c.obj = "default_cmd_history"
    THEN [NoPrint EXCEPT !.history = HistoryPrinted(history, argv)]
  ELSE NoPrint
HandlerState(c, n) ==
  IF c = Tombstone \/ Params(c.obj) # 3 THEN n
  ELSE IF c.obj \in {"inc", "inc3"} THEN inc(n)
  ELSE n

\* AfterHandler without the isinstance test
AfterHandlerNoTypeCheck(o) ==
  IF o.kind = "raise" THEN "PROMPT"
  ELSE IF o.val = QuitStatus THEN "DONE"
  ELSE "PROMPT"

\* lines 370-385: where the loop goes with what the handler did
AfterHandler(o) ==
  IF o.kind = "raise" THEN "PROMPT"
  ELSE IF ~o.isint THEN "PROMPT"
  ELSE IF o.val = QuitStatus THEN "DONE"
  ELSE "PROMPT"

\* lines 368-385: the handler ends
HandlerReturn ==
  /\ pc = "HANDLER"
  /\ \E o \in HandlerOutcomes(cmd, Split(current_cmd)) :
       /\ response' = o
       /\ pc' = AfterHandler(o)
  /\ printed' = HandlerPrinted(cmd, Split(current_cmd))
  /\ state_number' = HandlerState(cmd, state_number)
  /\ state_number' <= MaxNumber
  /\ UNCHANGED <<history, history_limit, i, last, current_cmd, force_quit, stop, cmd,
                 raised>>
  /\ UNCHANGED <<decVars, edVars, regVars, logVars, ttyVars, registered>>

\* sys.stdin.read(1) raises, or returns '' at the end of the input and ch[-1]
\* raises IndexError: input() and run() raise, after the finally clause of
\* _GetchUnix has put the terminal's settings back
ReadFails ==
  /\ pc = "COLLECT"
  /\ pc' = "RAISED"
  /\ raised' = "read"
  /\ i' = 0
  /\ last' = 0
  /\ InputGone
  /\ NavReset
  /\ GetchUnix(0, FALSE)
  /\ EndRow
  /\ UNCHANGED <<history, history_limit, current_cmd, force_quit, stop, cmd, response>>
  /\ UNCHANGED <<keep_log, h0, lastEnd, submitted, callVars>>
  /\ UNCHANGED <<decVars, regVars, epc, in_ch, stop_chars, seed, events>>

\* One prompt cycle in which line is typed and Enter is pressed: Prompt("str"),
\* a KeyEdit for each character of line, KeySubmit.
RunLine(line) ==
  /\ pc = "PROMPT"
  /\ LET b == BeginLine(history)
         r == AfterCollect(b.history, line)
     IN /\ r.lastEnd = "empty" \/ Len(submitted) <= history_limit
        /\ history' = r.history
        /\ i' = b.i
        /\ last' = b.last
        /\ pc' = r.pc
        /\ cmd' = r.cmd
        /\ lastEnd' = r.lastEnd
        /\ submitted' = IF r.lastEnd = "empty" \/ ~keep_log THEN submitted
                        ELSE Append(submitted, line)
  /\ h0' = IF keep_log THEN history ELSE <<>>
  /\ stop' = <<"LF">>
  /\ current_cmd' = line
  /\ InputGone
  /\ NavReset
  /\ response' = Return(0)
  /\ GetchUnix(Len(line) + 1, FALSE)
  /\ EndRow
  /\ printed' = NoPrint
  /\ UNCHANGED <<history_limit, force_quit, raised, keep_log, state_number, registered>>
  /\ UNCHANGED <<decVars, regVars, epc, in_ch, stop_chars, seed, events>>

(***************************************************************************)
(* The state after CLI.__init__, and the specifications.                   *)
(***************************************************************************)
InitCLI ==
  /\ dpc = "idle"
  /\ ch = <<>>
  /\ escape = escape_tree
  /\ ret = <<>>
  /\ readLog = <<>>
  /\ emitted = <<>>
  /\ epc = "idle"
  /\ out = <<>>
  /\ index = 0
  /\ in_ch = <<>>
  /\ stop_chars = default_stop_chars
  /\ seed = <<>>
  /\ events = <<>>
  /\ commands = <<cmd_help, cmd_quit, cmd_history>>
  /\ command_maps = <<>>
  /\ result = [op |-> "register", raised |-> "", id |-> 2]
  /\ pc = "init"
  /\ history = <<>>
  /\ i = 0
  /\ last = 0
  /\ current_cmd = <<>>
  /\ force_quit = FALSE
  /\ stop = <<>>
  /\ cmd = Unbound
  /\ response = Return(0)
  /\ raised = ""
  /\ h0 = <<>>
  /\ lastEnd = "none"
  /\ submitted = <<>>
  /\ navPhase = "none"
  /\ navDraft = <<>>
  /\ navUps = 0
  /\ navDowns = 0
  /\ tty = "cooked"
  /\ raw_entries = "never"
  /\ screen = NoScreen
  /\ read_gap = 0
  /\ state_number = 1
  /\ printed = NoPrint

\* a CLI of any history_limit
Init ==
  /\ InitCLI
  /\ history_limit \in 1..MaxHistoryLimit
  /\ keep_log = FALSE
  /\ registered = <<>>
\* a CLI of any history_limit, with the record of the run kept
InitLog ==
  /\ InitCLI
  /\ history_limit \in 1..MaxHistoryLimit
  /\ keep_log = TRUE
  /\ registered = commands
\* a CLI of one history_limit
InitOne ==
  /\ InitCLI
  /\ history_limit = MaxHistoryLimit
  /\ keep_log = FALSE
  /\ registered = <<>>
\* the same, with the record of the run kept
InitOneLog ==
  /\ InitCLI
  /\ history_limit = MaxHistoryLimit
  /\ keep_log = TRUE
  /\ registered = commands

\* the escape decoder on a stream of bytes
NextDecoder ==
  \/ \E b \in Bytes : GetchCall(b)
  \/ \E b \in Bytes : GetchRead(b)
SpecDecoder == InitOne /\ [][NextDecoder]_vars

\* the line editor on a seed and a stream of key events
NextEditor ==
  \/ \E base_input \in Texts(EdChars, MaxSeed) :
       \E stops \in {default_stop_chars, run_stop_chars} : InputCall(base_input, stops)
  \/ \E k \in EdKeys : InputKey(k)
SpecEditor == InitOne /\ [][NextEditor]_vars

\* the registry: the host and the handlers register and unregister commands,
\* and whole lines are submitted to run()
RegistryLines == {<<"x">>}
NextRegistry ==
  \/ \E c \in Candidates : register_command(c)
  \/ \E id \in 0..MaxCommands : unregister_command(id)
  \/ RunStart
  \/ \E line \in RegistryLines : RunLine(line)
  \/ HandlerReturn
SpecRegistry == InitOne /\ [][NextRegistry]_vars
\* the same, with the commands kept as they were registered
SpecRegistryLog == InitOneLog /\ [][NextRegistry]_vars

\* the history: the host calls run() once, and whole lines are submitted to it
HistoryLines == {<<>>, <<" ">>, <<"x">>, <<"y">>, <<"h">>, <<"q">>}
NextHistory ==
  \/ pc = "init" /\ RunStart
  \/ \E line \in HistoryLines : RunLine(line)
  \/ HandlerReturn
SpecHistory == InitLog /\ [][NextHistory]_vars

\* the dispatch: the host registers the commands of inc and calls run() once,
\* and whole lines are submitted to run()
DispatchLines == Range(inc_aliases) \cup {<<"q">>, <<"d", "u", "m", "p">>}
NextDispatch ==
  \/ \E c \in {cmd_inc, cmd_inc3} : pc = "init" /\ register_command(c)
  \/ pc = "init" /\ RunStart
  \/ \E line \in DispatchLines : RunLine(line)
  \/ HandlerReturn
SpecDispatch == InitOne /\ [][NextDispatch]_vars

\* the built-in commands: the host registers the command x or not and calls
\* run() once, commands are unregistered by the host and by handlers, and whole
\* lines are submitted to run()
BuiltinLines ==
  {<<"h">>, <<"x">>, <<"h", "i", "s", "t", "o", "r", "y">>,
   <<"h", "i", "s", "t", "o", "r", "y", " ", "1">>,
   <<"h", "i", "s", "t", "o", "r", "y", " ", "0">>,
   <<"h", "i", "s", "t", "o", "r", "y", " ", "x">>}
NextBuiltins ==
  \/ pc = "init" /\ register_command(cmd_x)
  \/ \E id \in 0..MaxCommands - 1 : unregister_command(id)
  \/ pc = "init" /\ RunStart
  \/ \E line \in BuiltinLines : RunLine(line)
  \/ HandlerReturn
SpecBuiltins == InitOne /\ [][NextBuiltins]_vars

\* the shell loop, key by key: the host registers the command x or not, and
\* calls run() once
Next ==
  \/ pc = "init" /\ register_command(cmd_x)
  \/ pc = "init" /\ RunStart
  \/ \E p \in PromptResults : Prompt(p)
  \/ \E k \in ShellEditKeys : KeyEdit(k)
  \/ KeyInterrupt
  \/ KeyEndOfInput
  \/ KeyUp
  \/ KeyDown
  \/ \E k \in {<<"LF">>, <<"CR">>} : KeySubmit(k)
  \/ HandlerReturn
  \/ ReadFails
Spec == Init /\ [][Next]_vars
\* the same, with the history of each cycle's start kept in h0
SpecH0 == InitLog /\ [][Next]_vars

\* prompt cycles of a CLI with the built-in commands only, where the keys that
\* edit the line are the characters and Backspace, with the history of each
\* cycle's start kept in h0
NextCycle ==
  \/ pc = "init" /\ RunStart
  \/ \E p \in PromptResults : Prompt(p)
  \/ \E k \in {<<c>> : c \in ShellChars} \cup {<<"DEL">>} : KeyEdit(k)
  \/ KeyInterrupt
  \/ KeyEndOfInput
  \/ KeyUp
  \/ KeyDown
  \/ \E k \in {<<"LF">>, <<"CR">>} : KeySubmit(k)
  \/ HandlerReturn
  \/ ReadFails
SpecCycle == InitLog /\ [][NextCycle]_vars

(***************************************************************************)
(* The registry claims, under SpecRegistry.                                *)
(***************************************************************************)
\* an alias of command is held by a command of cmds that is not None
AliasHeld(command, cmds) ==
  \E k \in DOMAIN command.aliases : Holders(cmds, command.aliases[k]) # {}

\* C1: register_command of a command that is not registered yet fails with
\* the alias-conflict error and leaves self.commands as it was whenever one of
\* its aliases is held by a command that is not tombstoned, a built-in or a
\* host's, before run() and after it has started.
C1_AliasConflictRejected ==
  [][\A c \in Candidates :
       (register_command(c) /\ c \notin Range(commands) /\ AliasHeld(c, commands))
         => (result'.raised = "command_overlapping_alias" /\ commands' = commands)]_vars

\* C2: no alias is held by two commands that are not tombstoned.
C2_AliasHeldOnce ==
  \A k \in Live(commands) : \A n \in DOMAIN commands[k].aliases :
    Cardinality(Holders(commands, commands[k].aliases[n])) <= 1

(***************************************************************************)
(* The shell loop claims, under Spec, SpecH0 and SpecHistory.              *)
(***************************************************************************)
IsQuit(o) == o.kind = "return" /\ o.isint /\ o.val = QuitStatus

\* C3: when a handler call ends, the loop ends if and only if the handler
\* returned the int -1024; after anything else it did (an interrupt or EOF
\* raised, another exception raised, a return that is no int, another int)
\* run() has not raised and the loop is back at the prompt.
C3_LoopEndsOnlyOnQuit ==
  [][(pc = "HANDLER" /\ pc' # "HANDLER")
       => /\ (pc' = "DONE") <=> IsQuit(response')
          /\ ~IsQuit(response') => pc' = "PROMPT"]_vars

\* a handler returned -1024.0, which is no int, and the loop went on
C3_Witness ==
  pc = "PROMPT" /\ lastEnd = "handler" /\ response = ReturnOther(QuitStatus)

\* C4: the EndOfInput key on a buffer that is not empty does what Submit does:
\* the text is committed to the history and its first word is looked up, from
\* any navigation position.
C4_EndOfInputSubmits ==
  [][(KeyEndOfInput /\ out # <<>>)
       => /\ history' = AfterCollect(history, out).history
          /\ pc' = AfterCollect(history, out).pc
          /\ cmd' = AfterCollect(history, out).cmd]_vars

\* C5: after a prompt cycle that ended with Interrupt or with a line without a
\* word, the history is what it was when the cycle began.
C5_CancelKeepsHistory ==
  (pc = "PROMPT" /\ lastEnd \in {"interrupt", "empty"}) => history = h0

\* C6: once history_limit + 1 lines with a word in them have been submitted, the
\* history is those lines without the first: history_limit entries, in the
\* order they were submitted, each one index lower.
C6_EvictsOldest ==
  (Len(submitted) = history_limit + 1 /\ lastEnd \in {"handler", "command_not_found"})
    => history = Tail(submitted)

\* three different lines went into a history of two
C6_Witness ==
  /\ history_limit = 2
  /\ submitted = << <<"x">>, <<"y">>, <<"h">> >>
  /\ history = << <<"y">>, <<"h">> >>
  /\ pc = "PROMPT"

\* C7: after n ArrowUp keys from the live draft and then n ArrowDown keys, with
\* no other key in between, the buffer holds the draft again.
C7_UpDownRestoresDraft ==
  (pc = "COLLECT" /\ navPhase = "down" /\ navDowns = navUps) => out = navDraft

(***************************************************************************)
(* The line editor claims, under SpecEditor.                               *)
(***************************************************************************)
\* the per-event rules on (text, cursor), the cursor counted from 0
InsertAt(text, cursor, c) ==
  [k \in 1..Len(text) + 1 |-> IF k <= cursor THEN text[k]
                              ELSE IF k = cursor + 1 THEN c
                              ELSE text[k - 1]]
\* text without its character number n, counted from 0
RemoveAt(text, n) ==
  [k \in 1..Len(text) - 1 |-> IF k <= n THEN text[k] ELSE text[k + 1]]
Rule(text, cursor, k) ==
  CASE k = ArrowLeft -> <<text, IF cursor - 1 < 0 THEN 0 ELSE cursor - 1>>
    [] k = ArrowRight -> <<text, IF cursor + 1 > Len(text) THEN Len(text) ELSE cursor + 1>>
    [] k \in {<<"DEL">>, <<"BS">>} ->
         IF cursor > 0 THEN <<RemoveAt(text, cursor - 1), cursor - 1>>
         ELSE <<text, cursor>>
    [] k = Delete ->
         IF cursor < Len(text) THEN <<RemoveAt(text, cursor), cursor>>
         ELSE <<text, cursor>>
    [] OTHER -> <<InsertAt(text, cursor, k[1]), cursor + 1>>
RECURSIVE Fold(_, _, _)
Fold(text, cursor, ks) ==
  IF ks = <<>> THEN <<text, cursor>>
  ELSE Fold(Rule(text, cursor, Head(ks))[1], Rule(text, cursor, Head(ks))[2], Tail(ks))

\* Char, ArrowLeft, ArrowRight, Backspace and Delete
FoldKeys == {<<c>> : c \in EdChars} \cup EditKeys

\* C8: after key events that are all Char, ArrowLeft, ArrowRight, Backspace or
\* Delete, (out, index) is the fold of the per-event rules over them, starting
\* from the seed with the cursor at its end.
C8_EditorIsFold ==
  (epc # "idle" /\ Range(events) \subseteq FoldKeys)
    => <<out, index>> = Fold(seed, Len(seed), events)

\* "b" was typed in front of the seed "a", and the "a" deleted
C8_Witness ==
  /\ epc = "reading"
  /\ seed = <<"a">>
  /\ events = <<ArrowLeft, <<"b">>, Delete>>
  /\ out = <<"b">>
  /\ index = 1

\* C9: the cursor is within the text, after any key events and any new seed.
C9_CursorInText == 0 <= index /\ index <= Len(out)

\* ArrowRight was pressed with the cursor at the end of the text
C9_Witness ==
  /\ epc = "reading"
  /\ seed = <<"a">>
  /\ events = <<ArrowRight>>
  /\ index = 1

(***************************************************************************)
(* The escape decoder claims, under SpecDecoder.                           *)
(***************************************************************************)
\* C10: the bytes ESC [ A give one ArrowUp, with the third byte and not before;
\* the bytes ESC [ Z give one event, the character Z, with the third byte and
\* not before; and then, unless the terminal sends ESC or [ again, no event
\* holds an ESC or a [.
C10_DecodeCSI ==
  /\ ch \in {<<"ESC">>, <<"ESC", "[">>} => (dpc = "reading" /\ ret = <<>>)
  /\ ch = <<"ESC", "[", "A">> => (dpc = "returned" /\ ret = ArrowUp)
  /\ ch = <<"ESC", "[", "Z">> => (dpc = "returned" /\ ret = <<"Z">>)
  /\ readLog = <<"ESC", "[", "A">> => emitted = <<ArrowUp>>
  /\ readLog = <<"ESC", "[", "Z">> => emitted = << <<"Z">> >>
  /\ (/\ Len(readLog) >= 3
      /\ SubSeq(readLog, 1, 3) = <<"ESC", "[", "Z">>
      /\ \A k \in 4..Len(readLog) : readLog[k] \notin {"ESC", "["})
       => \A n \in DOMAIN emitted : Range(emitted[n]) \cap {"ESC", "["} = {}

\* ESC [ Z and then q were read: the events are Z and q
C10_Witness ==
  /\ readLog = <<"ESC", "[", "Z", "q">>
  /\ emitted = << <<"Z">>, <<"q">> >>

\* The events of a byte stream s by the rules of the default table, one event
\* for each group of 1 to 3 bytes and none for an unfinished group at its end
RECURSIVE EventsOf(_)
EventsOf(s) ==
  IF s = <<>> THEN <<>>
  ELSE IF s[1] # "ESC" THEN << <<s[1]>> >> \o EventsOf(Tail(s))
  ELSE IF Len(s) < 2 THEN <<>>
  ELSE IF s[2] = "ESC" THEN << <<"ESC">> >> \o EventsOf(SubSeq(s, 3, Len(s)))
  ELSE IF s[2] # "[" THEN << <<s[2]>> >> \o EventsOf(SubSeq(s, 3, Len(s)))
  ELSE IF Len(s) < 3 THEN <<>>
  ELSE << IF s[3] \in {"A", "B", "C", "D", "P"} THEN SubSeq(s, 1, 3) ELSE <<s[3]>> >>
         \o EventsOf(SubSeq(s, 4, Len(s)))

\* C24: for every byte stream, each call of the decoder emits exactly one event
\* and consumes 1 to 3 bytes, which are the last bytes read: a byte other than
\* ESC is emitted as itself after 1 byte, ESC ESC gives the literal escape
\* after 2 bytes, ESC and a byte with no child gives that byte after 2 bytes;
\* and no byte is carried over into the next call, so the events emitted are
\* the events of the groups of the stream, each decoded on its own.
C24_OneEventPerCall ==
  /\ Len(ch) <= 3
  /\ emitted = EventsOf(readLog)
  /\ dpc = "reading" => (ch # <<>> /\ ch[1] = "ESC" /\ Len(ch) < 3)
  /\ dpc = "returned" =>
       /\ Len(ch) \in 1..3
       /\ ch = SubSeq(readLog, Len(readLog) - Len(ch) + 1, Len(readLog))
       /\ ret = Last(emitted)
       /\ emitted = EventsOf(SubSeq(readLog, 1, Len(readLog) - Len(ch))) \o <<ret>>
       /\ ch[1] # "ESC" => (Len(ch) = 1 /\ ret = ch)
       /\ (ch[1] = "ESC" /\ ch[2] = "ESC") => (Len(ch) = 2 /\ ret = <<"ESC">>)
       /\ (ch[1] = "ESC" /\ ch[2] \notin {"ESC", "["}) => (Len(ch) = 2 /\ ret = <<ch[2]>>)

\* ESC ESC gave the literal escape, and ESC q after it gave q
C24_Witness ==
  /\ dpc = "returned"
  /\ readLog = <<"ESC", "ESC", "ESC", "q">>
  /\ ch = <<"ESC", "q">>
  /\ emitted = << <<"ESC">>, <<"q">> >>

(***************************************************************************)
(* The terminal and the prompt, under Spec.                                *)
(***************************************************************************)
\* C11: the terminal is put in raw mode once in a run, before the first byte
\* is read: it is raw whenever run() waits for a byte and tty.setraw is not
\* called a second time; and once run() has ended, by the quit sentinel, by
\* force-quit, by the invalid prompt or by another exception, the terminal is
\* in the mode it had.
C11_RawModeOnce ==
  /\ pc = "COLLECT" => tty = "raw"
  /\ raw_entries # "again"
  /\ pc \in {"DONE", "RAISED"} => tty = "cooked"

\* the part of C11 about the exit paths alone
C11_RestoredOnExit ==
  /\ pc = "COLLECT" => tty = "raw"
  /\ pc \in {"DONE", "RAISED"} => tty = "cooked"

\* C12: a prompt that is no string ends run() with the invalid-prompt error,
\* with no key read and the history as it was; and whenever run() ends with an
\* error raised while the prompt is computed or a line is dispatched, it is
\* that error.
C12_InvalidPromptOnlyFatal ==
  [][/\ Prompt("None") => /\ pc' = "RAISED"
                          /\ raised' = "prompt_invalid"
                          /\ history' = history
                          /\ UNCHANGED ttyVars
     /\ (pc \in {"PROMPT", "HANDLER"} /\ pc' = "RAISED") => raised' = "prompt_invalid"]_vars

\* the part of C12 about the prompt that is no string alone
C12_InvalidPromptFatal ==
  [][Prompt("None") => /\ pc' = "RAISED"
                       /\ raised' = "prompt_invalid"
                       /\ history' = history
                       /\ UNCHANGED ttyVars]_vars

(***************************************************************************)
(* The dispatch and the built-in commands, under SpecDispatch.             *)
(***************************************************************************)
\* the handlers that add 1 to state["number"]
IncCommands == {cmd_inc, cmd_inc3}

\* C13: a line that is an alias of a command whose handler increments the
\* counter of the external state calls that handler, and when the call has
\* ended the counter is one higher and the loop is at the prompt; for each of
\* the command's aliases.
C13_IncIncrements ==
  [][/\ \A a \in Range(inc_aliases) :
          (/\ RunLine(a)
           /\ a \in DOMAIN command_maps
           /\ commands[command_maps[a] + 1] \in IncCommands)
            => (pc' = "HANDLER" /\ cmd' = commands[command_maps[a] + 1])
     /\ (pc = "HANDLER" /\ pc' # "HANDLER" /\ cmd \in IncCommands)
          => (state_number' = state_number + 1 /\ pc' = "PROMPT")]_vars

\* C13 for the handler that takes (inter, state, args) alone
C13_Inc3Increments ==
  [][(pc = "HANDLER" /\ pc' # "HANDLER" /\ cmd = cmd_inc3)
       => (state_number' = state_number + 1 /\ pc' = "PROMPT")]_vars

(***************************************************************************)
(* The built-in commands, under SpecBuiltins.                              *)
(***************************************************************************)
\* the last m entries of h, each with its index counted from 1
LastNumbered(h, m) == [k \in 1..m |-> <<Len(h) - m + k, h[Len(h) - m + k]>>]
Min(a, b) == IF a < b THEN a ELSE b
\* the count the line asks for is an integer (15 without one) of at least 1
CountValid(argv) == Len(argv) = 1 \/ (IsInt(argv[2]) /\ IntValue(argv[2]) >= 1)
CountOf(argv) == IF Len(argv) = 1 THEN 15 ELSE IntValue(argv[2])

\* C14: when the built-in history has returned, with a count c of at least 1
\* it has printed the last min(c, n) of the n committed entries of the history,
\* each with its index counted from 1, the oldest first and the entry committed
\* last at the end, and returned 0; with a count below 1 or one that is no
\* integer it has printed no entry and returned a status that is not 0.
C14_HistoryPrintsLast ==
  (pc = "PROMPT" /\ lastEnd = "handler" /\ cmd = cmd_history)
    => LET argv == Split(current_cmd) IN
       IF CountValid(argv)
         THEN /\ printed.history
                   = LastNumbered(history, Min(CountOf(argv), Len(history)))
              /\ response = Return(0)
         ELSE /\ printed.history = <<>>
              /\ response.kind = "return"
              /\ response.val # 0

\* C14 with the entries committed before the line of the history command
\* itself in the place of the committed entries
C14_HistoryPrintsEarlier ==
  (pc = "PROMPT" /\ lastEnd = "handler" /\ cmd = cmd_history)
    => LET argv == Split(current_cmd)
           earlier == SubSeq(history, 1, Len(history) - 1)
       IN IF CountValid(argv)
            THEN /\ printed.history
                      = LastNumbered(earlier, Min(CountOf(argv), Len(earlier)))
                 /\ response = Return(0)
            ELSE /\ printed.history = <<>>
                 /\ response.kind = "return"
                 /\ response.val # 0

\* the commands of cmds that are not None, in their order
LiveCommands(cmds) == SelectSeq(cmds, LAMBDA c : c # Tombstone)

\* C15: when the built-in help, called without an argument, has returned, it
\* has listed the commands that are not tombstoned, each once and no other, and
\* returned 0, whatever was registered and unregistered before.
C15_HelpListsLive ==
  (pc = "PROMPT" /\ lastEnd = "handler" /\ cmd = cmd_help /\ Len(Split(current_cmd)) = 1)
    => (printed.help = LiveCommands(commands) /\ response = Return(0))

\* C15 for a registry where no command was unregistered
C15_HelpListsAll ==
  (/\ pc = "PROMPT" /\ lastEnd = "handler" /\ cmd = cmd_help
   /\ Len(Split(current_cmd)) = 1 /\ Tombstone \notin Range(commands))
    => (printed.help = commands /\ response = Return(0))

(***************************************************************************)
(* More registry claims, under SpecRegistryLog and SpecRegistry.           *)
(***************************************************************************)
\* an alias of command was an alias of a command that is tombstoned now
WasHeld(command) ==
  \E k \in DOMAIN registered :
    /\ commands[k] = Tombstone
    /\ Range(registered[k].aliases) \cap Range(command.aliases) # {}

\* C16: unregister_command(id) leaves None at id; a registration of a command
\* with an alias of a tombstoned command, none of whose aliases is held by a
\* command that is not tombstoned, succeeds; and the identifier a registration
\* returns is not one at which a command was registered before.
C16_TombstoneFreesAliases ==
  [][/\ \A id \in 0..MaxCommands - 1 :
          (unregister_command(id) /\ id < Len(commands))
            => commands'[id + 1] = Tombstone
     /\ \A c \in Candidates :
          (/\ register_command(c)
           /\ c \notin Range(commands)
           /\ WasHeld(c)
           /\ ~AliasHeld(c, commands))
            => (result'.raised = "" /\ commands' = Append(commands, c))
     /\ \A c \in Candidates :
          (register_command(c) /\ result'.raised = "")
            => \A k \in DOMAIN registered : result'.id # k - 1]_vars

\* C16 without its part on the aliases
C16_IdsNotReused ==
  [][/\ \A id \in 0..MaxCommands - 1 :
          (unregister_command(id) /\ id < Len(commands))
            => commands'[id + 1] = Tombstone
     /\ \A c \in Candidates :
          (register_command(c) /\ result'.raised = "")
            => \A k \in DOMAIN registered : result'.id # k - 1]_vars

\* C17: register_command of a command that is in self.commands fails with
\* the duplicate-command error and leaves self.commands, and with it the
\* identifiers, and the alias map as they were, before run() and after it has
\* started.
C17_DuplicateRejected ==
  [][\A c \in Candidates :
       (register_command(c) /\ c \in Range(commands))
         => /\ result'.raised = "command_already_registered"
            /\ result'.id = -1
            /\ commands' = commands
            /\ command_maps' = command_maps]_vars

\* a handler registered the command x again, while its alias was in the map
C17_Witness ==
  /\ pc = "HANDLER"
  /\ cmd_x \in Range(commands)
  /\ <<"x">> \in DOMAIN command_maps
  /\ result = [op |-> "register", raised |-> "command_already_registered", id |-> -1]

(***************************************************************************)
(* More shell loop claims, under Spec.                                     *)
(***************************************************************************)
\* C18: the EndOfInput key on an empty buffer ends the loop at once: run() has
\* returned, no handler was called (the command, its response and the external
\* state are as they were), no further byte is waited for, and nothing happens
\* after it.
C18_EndOfInputEmptyQuits ==
  [][/\ (KeyEndOfInput /\ out = <<>>)
          => /\ pc' = "DONE"
             /\ force_quit'
             /\ tty' = "cooked"
             /\ raw_entries' = raw_entries
             /\ UNCHANGED <<cmd, response, history, callVars>>
     /\ pc = "DONE" => (pc' = "DONE" /\ UNCHANGED ttyVars)]_vars

\* the loop was left by EndOfInput on an empty buffer, after a line was run
C18_Witness ==
  /\ pc = "DONE"
  /\ force_quit
  /\ stop = EndOfInput
  /\ current_cmd = <<>>
  /\ Len(history) = 2
  /\ tty = "cooked"

\* C19: ArrowUp with the navigation index at 0 and ArrowDown with the
\* navigation index at the live draft change nothing: the text of the buffer,
\* the cursor, the history and the navigation index are as before the key,
\* whatever was typed.
C19_EdgeArrowsAreNoOps ==
  [][/\ (KeyUp /\ i = 0) => UNCHANGED <<out, index, history, i>>
     /\ (KeyDown /\ i = last) => UNCHANGED <<out, index, history, i>>]_vars

\* C19 for the history and the navigation index alone
C19_EdgeArrowsKeepHistory ==
  [][/\ (KeyUp /\ i = 0) => UNCHANGED <<history, i>>
     /\ (KeyDown /\ i = last) => UNCHANGED <<history, i>>]_vars

(***************************************************************************)
(* Dispatch after unregister_command, under SpecRegistryLog.               *)
(***************************************************************************)
\* a is an alias of a tombstoned command and of no command that is not
\* tombstoned
OnlyTombstoned(a) ==
  /\ \E k \in DOMAIN registered :
       commands[k] = Tombstone /\ a \in Range(registered[k].aliases)
  /\ Holders(commands, a) = {}

\* C20: a line whose first word is an alias of an unregistered command, and of
\* no command that is not tombstoned, is reported as command-not-found: no
\* handler call is begun and the loop is at the prompt; whether the command was
\* unregistered before run(), by a handler, or after a former run().
C20_UnregisteredNotFound ==
  [][\A line \in RegistryLines :
       (RunLine(line) /\ OnlyTombstoned(Lower(Split(line)[1])))
         => /\ pc' = "PROMPT"
            /\ lastEnd' = "command_not_found"
            /\ cmd' = Unbound]_vars

\* C20 for the commands unregistered before run() is called: run() builds its
\* alias map without them
C20_NotMappedAtStart ==
  [][RunStart => \A a \in DOMAIN command_maps' : ~OnlyTombstoned(a)]_vars

(***************************************************************************)
(* The history within a prompt cycle, under Spec.                          *)
(***************************************************************************)
\* C21: no key of a prompt cycle (a character, an editing key, ArrowUp,
\* ArrowDown, Submit, Interrupt, EndOfInput) changes an entry of the history
\* below the draft slot at index last: each entry committed before the cycle
\* is still there with its text after the key.
C21_CommittedEntriesKept ==
  [][pc = "COLLECT"
       => \A k \in 1..last : k \in DOMAIN history' /\ history'[k] = history[k]]_vars

\* the entry x was recalled with ArrowUp and is being edited into q
C21_Witness ==
  /\ pc = "COLLECT"
  /\ i = 0
  /\ last = 1
  /\ history = << <<"x">>, <<>> >>
  /\ out = <<"q">>

\* C22: the Interrupt key discards the line: the loop is at the prompt with no
\* handler call begun and the external state as it was, the history is its
\* entries below the draft slot, so that neither the text of the buffer nor a
\* snapshot an ArrowUp wrote to the draft slot is in it, and the next prompt
\* cycle begins with an empty buffer and an empty draft slot.
C22_InterruptDiscards ==
  [][/\ KeyInterrupt
          => /\ pc' = "PROMPT"
             /\ cmd' = Unbound
             /\ current_cmd' = <<>>
             /\ history' = SubSeq(history, 1, last)
             /\ UNCHANGED callVars
     /\ (lastEnd = "interrupt" /\ Prompt("str"))
          => (out' = <<>> /\ index' = 0 /\ Last(history') = <<>>)]_vars

\* a cycle that began with the entry x in the history was interrupted
C22_Witness ==
  /\ pc = "PROMPT"
  /\ lastEnd = "interrupt"
  /\ stop = Interrupt
  /\ current_cmd = <<>>
  /\ history = << <<"x">> >>

\* C23 as stated: during input collection a redraw lies between any two
\* consecutive byte reads, so at most one byte was read since the last redraw,
\* and the redraw shows prompt + out with the cursor len(out) - index columns
\* from the end.
C23_RedrawBetweenBytes ==
  /\ read_gap <= 1
  /\ epc = "reading" => screen = [row |-> <<"prompt">> \o out, back |-> Len(out) - index]

\* C23, amended: during input collection a redraw lies between any two
\* consecutive reads of a key event, each of which is 1 to 3 bytes read with no
\* redraw among them; whenever input() waits for a key the last redraw shows
\* prompt + out with the cursor len(out) - index columns from the end, where
\* (out, index) reflects every event applied so far.
C23_RedrawBetweenKeys ==
  /\ read_gap \in 0..3
  /\ epc = "returned" => read_gap = Len(in_ch)
  /\ epc = "reading" => read_gap = 0
  /\ epc # "idle" =>
       /\ screen.row = <<"prompt">> \o out
       /\ screen.back = Len(out) - index
       /\ Range(events) \subseteq FoldKeys =>
            LET f == Fold(seed, Len(seed), events) IN
            /\ screen.row = <<"prompt">> \o f[1]
            /\ screen.back = Len(f[1]) - f[2]

\* "a" was typed and the cursor moved left of it by the three bytes of ArrowLeft
C23_Witness ==
  /\ epc = "reading"
  /\ seed = <<>>
  /\ events = << <<"a">>, ArrowLeft >>
  /\ screen = [row |-> <<"prompt", "a">>, back |-> 1]
  /\ read_gap = 0

(***************************************************************************)
(* The length of the history, under SpecCycle.                             *)
(***************************************************************************)
\* C25: for a history_limit of 1 or more, the history, with the draft slot of
\* the cycle in progress counted, has at most history_limit entries in every
\* state of run(); a prompt cycle that opens its draft slot on a full history
\* evicts the oldest entry and on any other history evicts nothing; and the
\* commit of a line evicts nothing: it writes the draft slot and leaves the
\* length and every other entry as they were.
C25_HistoryBounded ==
  /\ [](history_limit >= 1 => Len(history) <= history_limit)
  /\ [][(pc = "PROMPT" /\ pc' = "COLLECT")
          => history' = Append(IF Len(history) >= history_limit THEN Tail(history)
                                                                 ELSE history, <<>>)]_vars
  /\ [][(pc = "COLLECT" /\ lastEnd' \in {"handler", "command_not_found"})
          => /\ Len(history') = Len(history)
             /\ history'[Len(history)] = out
             /\ \A k \in 1..(Len(history) - 1) : history'[k] = history[k]]_vars

\* a cycle began on the full history x, x: the older x is gone, the draft slot
\* is the second entry
C25_Witness ==
  /\ pc = "COLLECT"
  /\ history_limit = 2
  /\ h0 = << <<"x">>, <<"x">> >>
  /\ history = << <<"x">>, <<>> >>
  /\ last = 1

====
